---- MODULE Spec2Model ----
(***************************************************************************)
(* Retrieval subsystem of NyaaySahayak: the session FAISS store, the       *)
(* pgvector store, the VectorManager that owns one of each, and the        *)
(* snapshot files of the FAISS index.  The relational tables and the       *)
(* snapshot files are shared by every VectorManager; each VectorManager    *)
(* holds its own in-memory FAISS index.                                    *)
(***************************************************************************)
EXTENDS Integers, Sequences, FiniteSets, TLC

\* ------------------------------------------------------------------ bounds
MaxRows  == 2      \* rows the chunks table may hold
MaxDocs  == 2      \* rows the documents table may hold
MaxVec   == 2      \* vectors one in-memory index may hold
MaxBatch == 2      \* chunks handed to one add call
MaxK     == 2      \* largest top_k of a search
MaxPieces    == 4  \* pieces a document text is put together from
MaxChunkSize == 3  \* largest chunk_size of a LegalChunker
MaxOverlap   == 4  \* largest chunk_overlap of a LegalChunker
MaxLogs      == 2  \* rows the query_logs table may hold

\* ------------------------------------------------------------ value spaces
\* the two VectorManager objects the UI builds: its own, and the pipeline's
Managers == {"ui", "rag"}
Pipeline == "rag"
Texts    == {"t1", "t2"}
\* the question asked; the stored texts vary around it
Queries  == {"t1"}
UserIndexPath == "data/indexes/faiss_user.index"
Paths    == {UserIndexPath}

\* threads that may call into one store
Threads  == {"A", "B"}

\* a nullable column, or a dictionary key that may be absent
None       == <<>>
Some(v)    == <<v>>

\* a dictionary as a set of <<key, value>> pairs
DictGet(d, key, default) ==
    IF \E kv \in d : kv[1] = key
    THEN (CHOOSE kv \in d : kv[1] = key)[2]
    ELSE default
DictSet(d, key, value) == {kv \in d : kv[1] # key} \cup {<<key, value>>}

\* the metadata the loader hands over with a document
LoaderMetadata == {<<"filename", "lease.txt">>}

Min(a, b) == IF a <= b THEN a ELSE b

Batches == UNION {[1..n -> Texts] : n \in 0..MaxBatch}

\* ---------------------------------------------------------------- embedder
\* e5 prefixes passages with "passage: " and queries with "query: "
EmbeddingDim == 1024
embed_document(t) == [mode |-> "passage", text |-> t, dim |-> EmbeddingDim]
embed_documents(texts) == [i \in 1..Len(texts) |-> embed_document(texts[i])]
embed_query(q) == [mode |-> "query", text |-> q, dim |-> EmbeddingDim]

\* inner product of two unit vectors, in tenths
\* Column(Vector(1024)): the dimension the chunks table accepts
VectorDim == 1024
\* the dimensions a caller's vectors may have (384: a MiniLM model)
Dims == {VectorDim, 384}

InnerProduct(u, v) ==
    IF u = v THEN 10
    ELSE IF u.text = v.text THEN 9
    ELSE 6
CosineDistance(u, v) == 10 - InnerProduct(u, v)

\* ---------------------------------------------------------- snapshot files
NoFile      == [exists |-> FALSE, valid |-> FALSE, ntotal |-> 0, xb |-> <<>>]
CorruptFile == [exists |-> TRUE,  valid |-> FALSE, ntotal |-> 0, xb |-> <<>>]
\* faiss.write_index: header with the vector count, then the vectors
write_index(index) ==
    [exists |-> TRUE, valid |-> TRUE, ntotal |-> Len(index), xb |-> index]
\* faiss.read_index on a readable file
read_index(f) == [i \in 1..f.ntotal |-> f.xb[i]]

\* ------------------------------------------------------------------- state
VARIABLES
    alive,        \* alive[m]: VectorManager m has been constructed
    index,        \* index[m]: vectors of m's user_store.index, slot 0 first
    index_path,   \* index_path[m]: user_store.index_path
    files,        \* files[p]: the snapshot file at path p
    documents,    \* rows of table documents, in insertion order
    chunks,       \* rows of table chunks, in insertion order
    query_logs,   \* rows of table query_logs, in insertion order
    calls,        \* calls[t]: the add_document_chunks call thread t is in
    last          \* the latest call: its arguments, what it saw, its result

vars == <<alive, index, index_path, files, documents, chunks, query_logs, calls, last>>

NoCall ==
    [op |-> "none", m |-> "ui", raised |-> FALSE, n |-> 0,
     ntotal0 |-> 0, ndocs0 |-> 0, nrows0 |-> 0,
     path |-> UserIndexPath, file0 |-> NoFile, index0 |-> <<>>,
     mismatch |-> FALSE, fault |-> "none", q |-> "t1", k |-> 0, ids |-> <<>>,
     embedded |-> <<>>, user_rows |-> <<>>, pg_rows |-> <<>>,
     user |-> <<>>, general |-> <<>>, result |-> <<>>,
     text |-> <<>>, chunk_size |-> 0, chunk_overlap |-> 0,
     sections |-> <<>>, packed |-> <<>>, final_chunks |-> <<>>,
     language |-> "en", generated |-> FALSE, response |-> ""]

\* a thread that is in no call
NoFrame == [pc |-> "idle", cs |-> <<>>, document_id |-> 0, start_index |-> 0]

Init ==
    /\ alive = [m \in Managers |-> FALSE]
    /\ index = [m \in Managers |-> <<>>]
    /\ index_path = [m \in Managers |-> UserIndexPath]
    /\ files = [p \in Paths |-> NoFile]
    /\ documents = <<>>
    /\ chunks = <<>>
    /\ query_logs = <<>>
    /\ calls = [t \in Threads |-> NoFrame]
    /\ last = NoCall

\* --------------------------------------------------------- FAISSVectorStore
\* FAISSVectorStore.__init__(index_path=path)
FAISSVectorStore_init(fs, path) ==
    IF fs[path].exists
    THEN IF fs[path].valid
         THEN [raised |-> FALSE, index |-> read_index(fs[path])]
         ELSE [raised |-> TRUE,  index |-> <<>>]
    ELSE [raised |-> FALSE, index |-> <<>>]

\* VectorManager.__init__
Construct(m) ==
    LET st == FAISSVectorStore_init(files, UserIndexPath) IN
    /\ alive' = [alive EXCEPT ![m] = ~st.raised]
    /\ index' = [index EXCEPT ![m] = st.index]
    /\ index_path' = [index_path EXCEPT ![m] = UserIndexPath]
    /\ last' = [NoCall EXCEPT !.op = "init", !.m = m, !.raised = st.raised,
                              !.path = UserIndexPath, !.file0 = files[UserIndexPath]]
    /\ UNCHANGED <<calls, query_logs, files, documents, chunks>>

\* Document(filename=..., jurisdiction=metadata.get("jurisdiction", "Unknown"))
Document(metadata) ==
    [filename |-> DictGet(metadata, "filename", "NULL"),
     jurisdiction |-> DictGet(metadata, "jurisdiction", "Unknown")]

\* the position id counted from 0 in every call, whatever the index holds
FaissChunkRecord_StaleBase(start_index, i, document_id, text) ==
    [document_id |-> document_id, text |-> text, metadata_json |-> None,
     embedding |-> None, faiss_index_id |-> Some(i)]

\* Chunk(document_id=document.id, faiss_index_id=start_index + i, text=chunk["text"])
FaissChunkRecord(start_index, i, document_id, text) ==
    [document_id |-> document_id, text |-> text, metadata_json |-> None,
     embedding |-> None, faiss_index_id |-> Some(start_index + i)]

FaissFaults == {"none", "doc_commit", "embed", "chunk_commit"}

\* FAISSVectorStore.add_document_chunks on index idx and tables docs, rows
FAISS_add_document_chunks(idx, docs, rows, cs, metadata, fault) ==
    LET docs1 == Append(docs, Document(metadata))
        document_id == Len(docs1)
        embeddings == embed_documents(cs)
        start_index == Len(idx)
        idx1 == idx \o embeddings
        records == [i \in 1..Len(cs) |->
                       FaissChunkRecord(start_index, i - 1, document_id, cs[i])]
    IN  IF fault = "doc_commit"           \* db.commit() of the Document raises
        THEN [raised |-> TRUE, index |-> idx, documents |-> docs, chunks |-> rows]
        ELSE IF fault = "embed"           \* embed_documents raises
        THEN [raised |-> TRUE, index |-> idx, documents |-> docs1, chunks |-> rows]
        ELSE IF cs = <<>>                 \* index.add of the 1-d array np.array([]) raises
        THEN [raised |-> TRUE, index |-> idx, documents |-> docs1, chunks |-> rows]
        ELSE IF fault = "chunk_commit"    \* db.commit() of the Chunk rows raises
        THEN [raised |-> TRUE, index |-> idx1, documents |-> docs1, chunks |-> rows]
        ELSE [raised |-> FALSE, index |-> idx1, documents |-> docs1,
              chunks |-> rows \o records]

SaveFaults == {"none", "save_open", "save_write"}

\* a save that returns without writing the file
save_index_NoWrite(fs, idx, self_index_path, path, fault) ==
    [raised |-> fault # "none", files |-> fs]

\* FAISSVectorStore.save_index(path); path = None stands for no argument
save_index(fs, idx, self_index_path, path, fault) ==
    LET save_path == IF path # None THEN path[1] ELSE self_index_path IN
    IF fault = "save_open"                \* the file cannot be opened for writing
    THEN [raised |-> TRUE, files |-> fs]
    ELSE IF fault = "save_write"          \* the write stops after the file was truncated
    THEN [raised |-> TRUE, files |-> [fs EXCEPT ![save_path] = CorruptFile]]
    ELSE [raised |-> FALSE, files |-> [fs EXCEPT ![save_path] = write_index(idx)]]

\* a load that appends the snapshot to what the index holds
load_index_Merge(fs, idx, self_index_path, path) ==
    IF fs[path].exists
    THEN IF fs[path].valid
         THEN [raised |-> FALSE, index |-> idx \o read_index(fs[path]), index_path |-> path]
         ELSE [raised |-> TRUE,  index |-> idx, index_path |-> self_index_path]
    ELSE [raised |-> FALSE, index |-> idx, index_path |-> self_index_path]

\* FAISSVectorStore.load_index(path)
load_index(fs, idx, self_index_path, path) ==
    IF fs[path].exists
    THEN IF fs[path].valid
         THEN [raised |-> FALSE, index |-> read_index(fs[path]), index_path |-> path]
         ELSE [raised |-> TRUE,  index |-> idx, index_path |-> self_index_path]
    ELSE [raised |-> FALSE, index |-> idx, index_path |-> self_index_path]

\* ------------------------------------------------------ PostgresVectorStore
\* Chunk(document_id=document.id, text=chunk_text, embedding=emb, metadata_json=document_metadata)
PgChunkRecord(document_id, text, emb, metadata) ==
    [document_id |-> document_id, text |-> text, metadata_json |-> Some(metadata),
     embedding |-> Some(emb), faiss_index_id |-> None]

PgFaults == {"none", "embed", "doc_commit", "chunk_commit"}

\* PostgresVectorStore.add_document_chunks
Postgres_add_document_chunks(docs, rows, texts, embeddings, metadata, fault) ==
    LET docs1 == Append(docs, Document(metadata))
        document_id == Len(docs1)
        n == Min(Len(texts), Len(embeddings))          \* zip(chunks, embeddings)
        records == [i \in 1..n |->
                       PgChunkRecord(document_id, texts[i], embeddings[i], metadata)]
    IN  IF fault = "doc_commit"           \* first session.commit() raises; rollback
        THEN [raised |-> TRUE, documents |-> docs, chunks |-> rows]
        ELSE IF \E i \in 1..n : embeddings[i].dim # VectorDim
                                          \* the flush of the second commit: pgvector
                                          \* refuses the vector; rollback
        THEN [raised |-> TRUE, documents |-> docs1, chunks |-> rows]
        ELSE IF fault = "chunk_commit"    \* second session.commit() raises; rollback
        THEN [raised |-> TRUE, documents |-> docs1, chunks |-> rows]
        ELSE [raised |-> FALSE, documents |-> docs1, chunks |-> rows \o records]

\* ------------------------------------------------------------ VectorManager
\* VectorManager.add_user_documents(chunks, metadata)
AddUserDocuments(m, cs, fault) ==
    LET metadata == DictSet(LoaderMetadata, "source", "user")
        a == FAISS_add_document_chunks(index[m], documents, chunks, cs, metadata,
                                       IF fault \in FaissFaults THEN fault ELSE "none")
        s == IF a.raised
             THEN [raised |-> TRUE, files |-> files]
             ELSE save_index(files, a.index, index_path[m], None,
                             IF fault \in SaveFaults THEN fault ELSE "none")
    IN
    /\ alive[m]
    /\ Len(documents) < MaxDocs
    /\ Len(chunks) + Len(cs) <= MaxRows
    /\ Len(index[m]) + Len(cs) <= MaxVec
    /\ index' = [index EXCEPT ![m] = a.index]
    /\ documents' = a.documents
    /\ chunks' = a.chunks
    /\ files' = s.files
    /\ last' = [NoCall EXCEPT !.op = "add_user", !.m = m, !.raised = s.raised,
                              !.n = Len(cs), !.ntotal0 = Len(index[m]),
                              !.ndocs0 = Len(documents), !.nrows0 = Len(chunks),
                              !.path = index_path[m]]
    /\ UNCHANGED <<calls, query_logs, alive, index_path>>

\* user_store.add_document_chunks(chunks, metadata) called on the store of
\* manager m itself, as the scripts do: no save_index follows
FaissAddDocumentChunks(m, cs, fault) ==
    LET a == FAISS_add_document_chunks(index[m], documents, chunks, cs,
                                       LoaderMetadata, fault)
    IN
    /\ alive[m]
    /\ Len(documents) < MaxDocs
    /\ Len(chunks) + Len(cs) <= MaxRows
    /\ Len(index[m]) + Len(cs) <= MaxVec
    /\ index' = [index EXCEPT ![m] = a.index]
    /\ documents' = a.documents
    /\ chunks' = a.chunks
    /\ last' = [NoCall EXCEPT !.op = "faiss_add", !.m = m, !.raised = a.raised,
                              !.n = Len(cs), !.ntotal0 = Len(index[m]),
                              !.ndocs0 = Len(documents), !.nrows0 = Len(chunks),
                              !.path = index_path[m]]
    /\ UNCHANGED <<calls, query_logs, alive, index_path, files>>

\* add_document_chunks on the store of manager m, step by step in thread t:
\* lines 35-52, the Document row is committed and the chunks are embedded
BeginAdd(m, t, cs) ==
    /\ alive[m]
    /\ calls[t].pc = "idle"
    /\ Len(documents) < MaxDocs
    /\ \A u \in Threads \ {t} : calls[u].pc = "idle" \/
                                  Len(calls[u].cs) + Len(cs) <= MaxBatch
    /\ Len(chunks) + Len(cs) <= MaxRows
    /\ Len(index[m]) + Len(cs) <= MaxVec
    /\ documents' = Append(documents, Document(LoaderMetadata))
    /\ calls' = [calls EXCEPT ![t] = [pc |-> "read", cs |-> cs,
                                      document_id |-> Len(documents) + 1,
                                      start_index |-> 0]]
    /\ UNCHANGED <<alive, index, index_path, files, chunks, query_logs, last>>

\* line 56: start_index = self.index.ntotal
ReadNtotal(m, t) ==
    /\ calls[t].pc = "read"
    /\ calls' = [calls EXCEPT ![t].pc = "append", ![t].start_index = Len(index[m])]
    /\ UNCHANGED <<alive, index, index_path, files, documents, chunks, query_logs, last>>

\* line 57: self.index.add(embeddings); it raises on the array of no chunks
AppendVectors(m, t) ==
    /\ calls[t].pc = "append"
    /\ Len(index[m]) + Len(calls[t].cs) <= MaxVec
    /\ IF calls[t].cs = <<>>
       THEN /\ calls' = [calls EXCEPT ![t] = NoFrame]
            /\ index' = index
       ELSE /\ calls' = [calls EXCEPT ![t].pc = "rows"]
            /\ index' = [index EXCEPT ![m] = index[m] \o embed_documents(calls[t].cs)]
    /\ UNCHANGED <<alive, index_path, files, documents, chunks, query_logs, last>>

\* lines 61-71: the Chunk rows are added and committed, the call returns
CommitRows(t) ==
    /\ calls[t].pc = "rows"
    /\ Len(chunks) + Len(calls[t].cs) <= MaxRows
    /\ chunks' = chunks \o [i \in 1..Len(calls[t].cs) |->
                               FaissChunkRecord(calls[t].start_index, i - 1,
                                                calls[t].document_id, calls[t].cs[i])]
    /\ calls' = [calls EXCEPT ![t] = NoFrame]
    /\ UNCHANGED <<alive, index, index_path, files, documents, query_logs, last>>

\* VectorManager.add_general_documents(chunks, metadata)
AddGeneralDocuments(m, cs, fault) ==
    LET metadata == DictSet(LoaderMetadata, "source", "general")
        a == IF fault = "embed"           \* embed_documents raises
             THEN [raised |-> TRUE, documents |-> documents, chunks |-> chunks]
             ELSE Postgres_add_document_chunks(documents, chunks, cs,
                                               embed_documents(cs), metadata, fault)
    IN
    /\ alive[m]
    /\ Len(documents) < MaxDocs
    /\ Len(chunks) + Len(cs) <= MaxRows
    /\ documents' = a.documents
    /\ chunks' = a.chunks
    /\ last' = [NoCall EXCEPT !.op = "add_general", !.m = m, !.raised = a.raised,
                              !.n = Len(cs), !.ntotal0 = Len(index[m]),
                              !.ndocs0 = Len(documents), !.nrows0 = Len(chunks)]
    /\ UNCHANGED <<calls, query_logs, alive, index, index_path, files>>

\* general_store.add_document_chunks(texts, embeddings, metadata) called on the
\* store of manager m with the caller's own vectors, the i-th of dimension dims[i]
PgAddDocumentChunks(m, cs, dims, fault) ==
    LET embeddings == [i \in 1..Len(cs) |-> [embed_document(cs[i]) EXCEPT !.dim = dims[i]]]
        a == Postgres_add_document_chunks(documents, chunks, cs, embeddings,
                                          LoaderMetadata, fault)
    IN
    /\ alive[m]
    /\ Len(documents) < MaxDocs
    /\ Len(chunks) + Len(cs) <= MaxRows
    /\ documents' = a.documents
    /\ chunks' = a.chunks
    /\ last' = [NoCall EXCEPT !.op = "pg_add", !.m = m, !.raised = a.raised,
                              !.n = Len(cs), !.ndocs0 = Len(documents),
                              !.nrows0 = Len(chunks),
                              !.mismatch = \E i \in 1..Len(cs) : dims[i] # VectorDim]
    /\ UNCHANGED <<calls, query_logs, alive, index, index_path, files>>

\* user_store.save_index(path) called on the store of manager m
SaveIndex(m, p, fault) ==
    LET s == save_index(files, index[m], index_path[m], Some(p), fault) IN
    /\ alive[m]
    /\ files' = s.files
    /\ last' = [NoCall EXCEPT !.op = "save_index", !.m = m, !.raised = s.raised,
                              !.path = p]
    /\ UNCHANGED <<calls, query_logs, alive, index, index_path, documents, chunks>>

\* user_store.load_index(path) called on the store of manager m
LoadIndex(m, p) ==
    LET l == load_index(files, index[m], index_path[m], p) IN
    /\ alive[m]
    /\ index' = [index EXCEPT ![m] = l.index]
    /\ index_path' = [index_path EXCEPT ![m] = l.index_path]
    /\ last' = [NoCall EXCEPT !.op = "load_index", !.m = m, !.raised = l.raised,
                              !.path = p, !.file0 = files[p], !.index0 = index[m]]
    /\ UNCHANGED <<calls, query_logs, alive, files, documents, chunks>>

\* ------------------------------------------------------------------ search
Injective(s) == \A i, j \in DOMAIN s : i # j => s[i] # s[j]
Range(s) == {s[i] : i \in DOMAIN s}

\* the orders in which a nearest-neighbour scan may return the n best of
\* items: key non-decreasing, nothing left out that has a smaller key than
\* one returned; among equal keys no order is promised
Ranked(items, key, n) ==
    {s \in [1..n -> items] :
        /\ Injective(s)
        /\ \A i, j \in 1..n : i < j => key[s[i]] <= key[s[j]]
        /\ \A x \in items \ Range(s) : \A i \in 1..n : key[s[i]] <= key[x]}

\* index.search(query_embedding, top_k) of IndexFlatIP: the labels row, the
\* best inner product first, padded with -1 when fewer than top_k vectors exist
IndexSearch(idx, qv, top_k) ==
    LET n == Min(top_k, Len(idx))
        slots == 0..(Len(idx) - 1)
        negIP == [pos \in slots |-> 0 - InnerProduct(qv, idx[pos + 1])]
    IN  {s \o [i \in 1..(top_k - n) |-> -1] : s \in Ranked(slots, negIP, n)}

\* the rows that match Chunk.faiss_index_id == idx
RowsAt(rows, idx) == {r \in 1..Len(rows) : rows[r].faiss_index_id = Some(idx)}

\* the rows .first() may return for each label: one of the matching rows, 0 for none
RECURSIVE FirstChoices(_, _)
FirstChoices(rows, ids) ==
    IF ids = <<>> THEN {<<>>}
    ELSE LET first == IF RowsAt(rows, Head(ids)) = {} THEN {0}
                      ELSE RowsAt(rows, Head(ids))
         IN  {<<r>> \o pick : r \in first, pick \in FirstChoices(rows, Tail(ids))}

FaissResult(row) ==
    [text |-> row.text, document_id |-> Some(row.document_id), metadata |-> None]

RECURSIVE FaissResults_StopAtMissing(_, _, _)
\* a loop that ends at the first label without a row
FaissResults_StopAtMissing(rows, pick, j) ==
    IF j > Len(pick) THEN <<>>
    ELSE IF pick[j] # 0
         THEN <<FaissResult(rows[pick[j]])>> \o FaissResults_StopAtMissing(rows, pick, j + 1)
         ELSE <<>>

RECURSIVE FaissResults(_, _, _)
\* the loop of FAISSVectorStore.similarity_search over indices[0], from label j on
FaissResults(rows, pick, j) ==
    IF j > Len(pick) THEN <<>>
    ELSE IF pick[j] # 0
         THEN <<FaissResult(rows[pick[j]])>> \o FaissResults(rows, pick, j + 1)
         ELSE FaissResults(rows, pick, j + 1)

\* FAISSVectorStore.similarity_search(query, top_k): every outcome it may have
FAISS_similarity_search(idx, rows, query, top_k) ==
    LET query_embedding == embed_query(query) IN
    UNION {{[ids |-> ids, rows |-> pick, results |-> FaissResults(rows, pick, 1),
             embedded |-> <<query_embedding>>] : pick \in FirstChoices(rows, ids)} :
              ids \in IndexSearch(idx, query_embedding, top_k)}

NullsLast == 99
\* {"text": r.text, "metadata": r.metadata_json or {}}
PgResult(row) ==
    [text |-> row.text, document_id |-> None,
     metadata |-> IF row.metadata_json = None THEN Some({}) ELSE row.metadata_json]

\* PostgresVectorStore.similarity_search(query_embedding, top_k):
\* ORDER BY embedding <=> query LIMIT top_k over every row of chunks
Postgres_similarity_search(rows, query_embedding, top_k) ==
    LET distance == [r \in 1..Len(rows) |->
                        IF rows[r].embedding = None THEN NullsLast
                        ELSE CosineDistance(rows[r].embedding[1], query_embedding)]
    IN  {[rows |-> s, results |-> [j \in 1..Len(s) |-> PgResult(rows[s[j]])]] :
            s \in Ranked(1..Len(rows), distance, Min(top_k, Len(rows)))}

\* a merge that puts the Postgres results first
MergeResults_GeneralFirst(user_results, general_results, top_k) ==
    SubSeq(general_results \o user_results, 1,
           Min(top_k, Len(user_results) + Len(general_results)))

\* combined = user_results + general_results; return combined[:top_k]
MergeResults(user_results, general_results, top_k) ==
    SubSeq(user_results \o general_results, 1,
           Min(top_k, Len(user_results) + Len(general_results)))

\* what may fail while a query is answered: index.search, the Chunk row
\* lookup of the FAISS store, the query of the Postgres store
SearchFaults == {"none", "faiss_search", "row_lookup", "pg_query"}

\* VectorManager.search(query, top_k); nothing in it or below it catches an
\* exception of a store. embedded: the vectors the embed_query calls of the
\* search gave, line 41 first, then the one of the FAISS store
Search(m, q, k, fault) ==
    /\ alive[m]
    /\ IF fault # "none"
       THEN last' = [NoCall EXCEPT !.op = "search", !.m = m, !.q = q, !.k = k,
                                   !.fault = fault, !.raised = TRUE,
                                   !.embedded = <<embed_query(q), embed_query(q)>>]
       ELSE \E u \in FAISS_similarity_search(index[m], chunks, q, k) :
            \E g \in Postgres_similarity_search(chunks, embed_query(q), k) :
               last' = [NoCall EXCEPT !.op = "search", !.m = m, !.q = q, !.k = k,
                                      !.ids = u.ids, !.user_rows = u.rows, !.user = u.results,
                                      !.embedded = <<embed_query(q)>> \o u.embedded,
                                      !.pg_rows = g.rows, !.general = g.results,
                                      !.result = MergeResults(u.results, g.results, k)]
    /\ UNCHANGED <<calls, query_logs, alive, index, index_path, files, documents, chunks>>

\* ------------------------------------------------------------ LegalChunker
\* a text is a sequence of characters: "S" stands for one of the keywords the
\* pattern spells (SECTION, Section, CLAUSE, Clause), "s" for a keyword in
\* another letter case (section, SeCtIoN), "1" for a digit, "a" for a letter
\* of a word, " " and "\n" for white space
Whitespace == {" ", "\n"}
Digits     == {"1"}
Marker     == <<"S", " ", "1">>
OtherCase  == <<"s", " ", "1">>
Pieces     == {Marker, OtherCase, <<"a">>, <<" ">>}

RECURSIVE Concat(_)
Concat(ps) == IF ps = <<>> THEN <<>> ELSE Head(ps) \o Concat(Tail(ps))

\* the document texts handed to chunk_text
DocTexts == {Concat(ps) : ps \in UNION {[1..n -> Pieces] : n \in 0..MaxPieces}}

\* str.strip()
Strip(s) ==
    LET solid == {i \in 1..Len(s) : s[i] \notin Whitespace} IN
    IF solid = {} THEN <<>>
    ELSE SubSeq(s, CHOOSE i \in solid : \A j \in solid : i <= j,
                   CHOOSE i \in solid : \A j \in solid : j <= i)

\* the last position of the longest run of characters of class C that starts
\* at position i of s; i - 1 when there is none
RunEnd(s, i, C) ==
    CHOOSE j \in (i - 1)..Len(s) :
        /\ \A k \in i..j : s[k] \in C
        /\ j = Len(s) \/ s[j + 1] \notin C

\* where a match of (SECTION\s+\d+|Section\s+\d+|CLAUSE\s+\d+|Clause\s+\d+)
\* that starts at position i of s ends; 0 when none starts there
MatchEnd(s, i) ==
    IF i <= Len(s) /\ s[i] = "S"
    THEN LET w == RunEnd(s, i + 1, Whitespace)
             d == RunEnd(s, w + 1, Digits)
         IN  IF w >= i + 1 /\ d >= w + 1 THEN d ELSE 0
    ELSE 0

RECURSIVE re_split(_, _, _)
\* re.split(pattern, text) from position i on, the pending text part starting
\* at position start: text parts and markers in turn
re_split(s, i, start) ==
    IF i > Len(s) THEN <<SubSeq(s, start, Len(s))>>
    ELSE IF MatchEnd(s, i) # 0
         THEN <<SubSeq(s, start, i - 1), SubSeq(s, i, MatchEnd(s, i))>>
                  \o re_split(s, MatchEnd(s, i) + 1, MatchEnd(s, i) + 1)
         ELSE re_split(s, i + 1, start)

\* a loop that forgets the buffer left when the parts are used up
RECURSIVE SplitLoop_NoTail(_, _, _, _)
SplitLoop_NoTail(splits, j, buffer, sections) ==
    IF j > Len(splits) THEN sections
    ELSE IF MatchEnd(splits[j], 1) # 0
         THEN SplitLoop_NoTail(splits, j + 1, splits[j],
                        IF Strip(buffer) # <<>> THEN Append(sections, Strip(buffer))
                        ELSE sections)
         ELSE SplitLoop_NoTail(splits, j + 1, buffer \o <<"\n">> \o splits[j], sections)

RECURSIVE SplitLoop(_, _, _, _)
\* the loop of _split_by_sections from part j on, and the flush after it
SplitLoop(splits, j, buffer, sections) ==
    IF j > Len(splits)
    THEN IF Strip(buffer) # <<>> THEN Append(sections, Strip(buffer)) ELSE sections
    ELSE IF MatchEnd(splits[j], 1) # 0              \* re.match(pattern, part)
         THEN SplitLoop(splits, j + 1, splits[j],
                        IF Strip(buffer) # <<>> THEN Append(sections, Strip(buffer))
                        ELSE sections)
         ELSE SplitLoop(splits, j + 1, buffer \o <<"\n">> \o splits[j], sections)

\* LegalChunker._split_by_sections(text)
split_by_sections(text) == SplitLoop(re_split(text, 1, 1), 1, <<>>, <<>>)

\* _count_tokens(text) under a stand-in tokenizer: one token per character
\* that is not white space
count_tokens(text) == Cardinality({i \in 1..Len(text) : text[i] \notin Whitespace})

\* {"text": current_chunk.strip(), "metadata": metadata}
ChunkDict(text, metadata) == [text |-> text, metadata |-> metadata]

\* a loop that lets a section join whenever the current chunk is not full
RECURSIVE PackLoop_JoinWhileNotFull(_, _, _, _, _, _, _)
PackLoop_JoinWhileNotFull(sections, j, current_chunk, current_tokens, packed, chunk_size, metadata) ==
    IF j > Len(sections)
    THEN IF Strip(current_chunk) # <<>>
         THEN Append(packed, ChunkDict(Strip(current_chunk), metadata))
         ELSE packed
    ELSE LET section == sections[j]
             section_tokens == count_tokens(section)
         IN  IF current_tokens < chunk_size
             THEN PackLoop_JoinWhileNotFull(sections, j + 1,
                           IF current_chunk # <<>>
                           THEN current_chunk \o <<"\n", "\n">> \o section
                           ELSE section,
                           current_tokens + section_tokens, packed, chunk_size, metadata)
             ELSE PackLoop_JoinWhileNotFull(sections, j + 1, section, section_tokens,
                           IF Strip(current_chunk) # <<>>
                           THEN Append(packed, ChunkDict(Strip(current_chunk), metadata))
                           ELSE packed,
                           chunk_size, metadata)

\* a loop that returns without the chunk still being filled
RECURSIVE PackLoop_NoFinalFlush(_, _, _, _, _, _, _)
PackLoop_NoFinalFlush(sections, j, current_chunk, current_tokens, packed, chunk_size, metadata) ==
    IF j > Len(sections)
    THEN packed
    ELSE LET section == sections[j]
             section_tokens == count_tokens(section)
         IN  IF current_tokens + section_tokens <= chunk_size
             THEN PackLoop_NoFinalFlush(sections, j + 1,
                           IF current_chunk # <<>>
                           THEN current_chunk \o <<"\n", "\n">> \o section
                           ELSE section,
                           current_tokens + section_tokens, packed, chunk_size, metadata)
             ELSE PackLoop_NoFinalFlush(sections, j + 1, section, section_tokens,
                           IF Strip(current_chunk) # <<>>
                           THEN Append(packed, ChunkDict(Strip(current_chunk), metadata))
                           ELSE packed,
                           chunk_size, metadata)

\* a loop that lets a section join only while the budget is not yet reached
RECURSIVE PackLoop_StrictBudget(_, _, _, _, _, _, _)
PackLoop_StrictBudget(sections, j, current_chunk, current_tokens, packed, chunk_size, metadata) ==
    IF j > Len(sections)
    THEN IF Strip(current_chunk) # <<>>
         THEN Append(packed, ChunkDict(Strip(current_chunk), metadata))
         ELSE packed
    ELSE LET section == sections[j]
             section_tokens == count_tokens(section)
         IN  IF current_tokens + section_tokens < chunk_size
             THEN PackLoop_StrictBudget(sections, j + 1,
                           IF current_chunk # <<>>
                           THEN current_chunk \o <<"\n", "\n">> \o section
                           ELSE section,
                           current_tokens + section_tokens, packed, chunk_size, metadata)
             ELSE PackLoop_StrictBudget(sections, j + 1, section, section_tokens,
                           IF Strip(current_chunk) # <<>>
                           THEN Append(packed, ChunkDict(Strip(current_chunk), metadata))
                           ELSE packed,
                           chunk_size, metadata)

\* the packing loop of chunk_text from section j on, and the flush after it
RECURSIVE PackLoop(_, _, _, _, _, _, _)
PackLoop(sections, j, current_chunk, current_tokens, packed, chunk_size, metadata) ==
    IF j > Len(sections)
    THEN IF Strip(current_chunk) # <<>>
         THEN Append(packed, ChunkDict(Strip(current_chunk), metadata))
         ELSE packed
    ELSE LET section == sections[j]
             section_tokens == count_tokens(section)
         IN  IF current_tokens + section_tokens <= chunk_size
             THEN PackLoop(sections, j + 1,
                           IF current_chunk # <<>>
                           THEN current_chunk \o <<"\n", "\n">> \o section
                           ELSE section,
                           current_tokens + section_tokens, packed, chunk_size, metadata)
             ELSE PackLoop(sections, j + 1, section, section_tokens,
                           IF Strip(current_chunk) # <<>>
                           THEN Append(packed, ChunkDict(Strip(current_chunk), metadata))
                           ELSE packed,
                           chunk_size, metadata)

\* the slice s[-n:]
LastChars(s, n) ==
    IF n = 0 THEN s
    ELSE IF n >= Len(s) THEN s
    ELSE SubSeq(s, Len(s) - n + 1, Len(s))

\* the overlap loop of chunk_text from chunk i on
RECURSIVE OverlapLoop(_, _, _, _, _)
OverlapLoop(packed, i, final_chunks, chunk_overlap, metadata) ==
    IF i > Len(packed) THEN final_chunks
    ELSE IF i = 1
         THEN OverlapLoop(packed, i + 1, Append(final_chunks, packed[i]),
                          chunk_overlap, metadata)
         ELSE LET prev_text == final_chunks[Len(final_chunks)].text
                  overlap_text == LastChars(prev_text, chunk_overlap)
                  merged_text == overlap_text \o <<"\n", "\n">> \o packed[i].text
              IN  OverlapLoop(packed, i + 1,
                              Append(final_chunks, ChunkDict(merged_text, metadata)),
                              chunk_overlap, metadata)

\* LegalChunker(chunk_size, chunk_overlap).chunk_text(text, metadata): the
\* sections, the chunks as packed (the list chunks), and the list returned
chunk_text(chunk_size, chunk_overlap, text, metadata) ==
    LET sections == split_by_sections(text)
        packed == PackLoop(sections, 1, <<>>, 0, <<>>, chunk_size, metadata)
    IN  [sections |-> sections, packed |-> packed,
         final_chunks |-> OverlapLoop(packed, 1, <<>>, chunk_overlap, metadata)]

\* one call of chunk_text on a chunker built with the two sizes
ChunkText(chunk_size, chunk_overlap, text) ==
    LET c == chunk_text(chunk_size, chunk_overlap, text, LoaderMetadata) IN
    /\ last' = [NoCall EXCEPT !.op = "chunk_text", !.text = text,
                              !.chunk_size = chunk_size, !.chunk_overlap = chunk_overlap,
                              !.sections = c.sections, !.packed = c.packed,
                              !.final_chunks = c.final_chunks]
    /\ UNCHANGED <<calls, query_logs, alive, index, index_path, files, documents, chunks>>

\* -------------------------------------------------------- LegalRAGPipeline
Languages == {"en", "hi"}
TopK == 5                                  \* search(query, top_k=5)
NoResultsMessage == "No relevant legal information found."
Apology == "I apologize, but I encountered an error. Please consult a legal professional."

\* LegalLLM.generate(prompt): the generated text, or the apology when the
\* generator raises inside it
generate(prompt, fault) ==
    IF fault = "llm" THEN Apology ELSE "generated text"

\* QueryLog(query_text=query, language=language)
QueryLog(query, language) == [query_text |-> query, language |-> language]

AnswerFaults == {"none", "search", "llm", "log_commit"}

\* a flow that writes the QueryLog row before it looks at the retrieved chunks
answer_query_LogFirst(retrieved_chunks, logs, query, language, fault) ==
    IF fault = "log_commit"
    THEN [raised |-> TRUE, generated |-> FALSE, response |-> "", query_logs |-> logs]
    ELSE IF retrieved_chunks = <<>>
    THEN [raised |-> FALSE, generated |-> FALSE, response |-> NoResultsMessage,
          query_logs |-> Append(logs, QueryLog(query, language))]
    ELSE [raised |-> FALSE, generated |-> TRUE,
          response |-> generate([query |-> query, context |-> retrieved_chunks], fault),
          query_logs |-> Append(logs, QueryLog(query, language))]

\* LegalRAGPipeline.answer_query after the search returned retrieved_chunks
answer_query(retrieved_chunks, logs, query, language, fault) ==
    IF retrieved_chunks = <<>>
    THEN [raised |-> FALSE, generated |-> FALSE, response |-> NoResultsMessage,
          query_logs |-> logs]
    ELSE LET context == [i \in 1..Len(retrieved_chunks) |-> retrieved_chunks[i].text]
             response == generate([query |-> query, context |-> context], fault)
         IN  IF fault = "log_commit"           \* db.commit() of the QueryLog raises
             THEN [raised |-> TRUE, generated |-> TRUE, response |-> "",
                   query_logs |-> logs]
             ELSE [raised |-> FALSE, generated |-> TRUE, response |-> response,
                   query_logs |-> Append(logs, QueryLog(query, language))]

\* rag_pipeline.answer_query(query, language) on the pipeline of manager m
AnswerQuery(m, q, language, fault) ==
    /\ alive[m]
    /\ Len(query_logs) < MaxLogs
    /\ IF fault = "search"                     \* vector_manager.search raises
       THEN /\ last' = [NoCall EXCEPT !.op = "answer_query", !.m = m, !.q = q,
                                      !.k = TopK, !.language = language,
                                      !.fault = fault, !.raised = TRUE]
            /\ query_logs' = query_logs
       ELSE \E u \in FAISS_similarity_search(index[m], chunks, q, TopK) :
            \E g \in Postgres_similarity_search(chunks, embed_query(q), TopK) :
               LET retrieved_chunks == MergeResults(u.results, g.results, TopK)
                   a == answer_query(retrieved_chunks, query_logs, q, language, fault)
               IN  /\ last' = [NoCall EXCEPT !.op = "answer_query", !.m = m, !.q = q,
                                             !.k = TopK, !.language = language,
                                             !.fault = fault, !.raised = a.raised,
                                             !.ids = u.ids, !.user_rows = u.rows, !.user = u.results,
                                      !.embedded = <<embed_query(q)>> \o u.embedded,
                                             !.pg_rows = g.rows, !.general = g.results,
                                             !.result = retrieved_chunks,
                                             !.generated = a.generated,
                                             !.response = a.response]
                   /\ query_logs' = a.query_logs
    /\ UNCHANGED <<calls, alive, index, index_path, files, documents, chunks>>

Faults == FaissFaults \cup SaveFaults

\* the caller has taken the outcome of its call; the record of the call goes
Return ==
    /\ last # NoCall
    /\ last' = NoCall
    /\ UNCHANGED <<calls, query_logs, alive, index, index_path, files, documents, chunks>>

\* every call the code base makes on managers ms
Calls(ms) ==
    \/ \E m \in ms : Construct(m)
    \/ \E m \in ms, cs \in Batches, fault \in Faults : AddUserDocuments(m, cs, fault)
    \/ \E m \in ms, cs \in Batches, fault \in PgFaults : AddGeneralDocuments(m, cs, fault)
    \/ \E m \in ms, cs \in Batches, fault \in PgFaults \ {"embed"} :
          \E dims \in [1..Len(cs) -> Dims] : PgAddDocumentChunks(m, cs, dims, fault)
    \/ \E m \in ms, p \in Paths, fault \in SaveFaults : SaveIndex(m, p, fault)
    \/ \E m \in ms, p \in Paths : LoadIndex(m, p)
    \/ \E m \in ms, q \in Queries, k \in 1..MaxK, fault \in SearchFaults :
          Search(m, q, k, fault)

\* one pipeline with its VectorManager, as the scripts use it; calls do not
\* overlap: one is made when the one before has returned
Next ==
    \/ last = NoCall /\ Calls({Pipeline})
    \/ Return

Spec == Init /\ [][Next]_vars

\* the calls of ui/streamlit_app.py: every rerun builds vector_manager ("ui")
\* and rag_pipeline ("rag"), uploads go to the first, questions to the second;
\* the snapshot file can always be written
CallsUI ==
    \/ \E m \in Managers : Construct(m)
    \/ \E cs \in Batches, fault \in FaissFaults : AddUserDocuments("ui", cs, fault)
    \/ \E q \in Queries, k \in 1..MaxK : Search(Pipeline, q, k, "none")

NextUI ==
    \/ last = NoCall /\ CallsUI
    \/ Return

SpecUI == Init /\ [][NextUI]_vars

\* the pipeline answering questions between uploads and loads of general law
CallsRAG ==
    \/ Construct(Pipeline)
    \/ \E cs \in Batches : AddUserDocuments(Pipeline, cs, "none")
    \/ \E cs \in Batches : AddGeneralDocuments(Pipeline, cs, "none")
    \/ \E q \in Queries, k \in 1..MaxK : Search(Pipeline, q, k, "none")
    \/ \E q \in Queries, language \in Languages, fault \in AnswerFaults :
          AnswerQuery(Pipeline, q, language, fault)

NextRAG ==
    \/ last = NoCall /\ CallsRAG
    \/ Return

SpecRAG == Init /\ [][NextRAG]_vars

\* one FAISSVectorStore used directly over the shared tables: adds, saves,
\* loads, searches, and restarts of the process that rebuild the store from
\* its snapshot
CallsStore ==
    \/ Construct(Pipeline)
    \/ \E cs \in Batches, fault \in FaissFaults : FaissAddDocumentChunks(Pipeline, cs, fault)
    \/ \E p \in Paths, fault \in SaveFaults : SaveIndex(Pipeline, p, fault)
    \/ \E p \in Paths : LoadIndex(Pipeline, p)
    \/ \E q \in Queries, k \in 1..MaxK : Search(Pipeline, q, k, "none")

NextStore ==
    \/ last = NoCall /\ CallsStore
    \/ Return

SpecStore == Init /\ [][NextStore]_vars

\* two VectorManager instances of one deployment, each uploading user
\* documents: they share the snapshot path and the chunks table
CallsShared ==
    \/ \E m \in Managers : Construct(m)
    \/ \E m \in Managers, cs \in Batches : AddUserDocuments(m, cs, "none")

NextShared ==
    \/ last = NoCall /\ CallsShared
    \/ Return

SpecShared == Init /\ [][NextShared]_vars

\* two threads calling add_document_chunks on the one store of a process; the
\* code takes no lock, so their steps interleave freely
NextThreads ==
    \/ last = NoCall /\ ~alive[Pipeline] /\ Construct(Pipeline)
    \/ Return
    \/ \E t \in Threads, cs \in Batches : BeginAdd(Pipeline, t, cs)
    \/ \E t \in Threads : ReadNtotal(Pipeline, t)
    \/ \E t \in Threads : AppendVectors(Pipeline, t)
    \/ \E t \in Threads : CommitRows(t)

SpecThreads == Init /\ [][NextThreads]_vars

\* the chunker on its own: any document text, any positive sizes
NextChunker ==
    \/ /\ last = NoCall
       /\ \E chunk_size \in 1..MaxChunkSize, chunk_overlap \in 1..MaxOverlap,
             text \in DocTexts : ChunkText(chunk_size, chunk_overlap, text)
    \/ Return

SpecChunker == Init /\ [][NextChunker]_vars

\* ------------------------------------------------------------------ claims
NewRows == (last.nrows0 + 1)..Len(chunks)

\* C1: in every add_document_chunks call the i-th input chunk (0-based) gets a
\* Chunk row whose faiss_index_id is B + i, B being index.ntotal before the
\* call's vectors are appended, which is the slot that holds the chunk's
\* vector; a call that returns normally has stored one row per input chunk.
C1_PositionalInvariant ==
    last.op = "add_user" =>
        /\ ~last.raised => Len(chunks) = last.nrows0 + last.n
        /\ \A r \in NewRows :
              LET i == r - last.nrows0 - 1 IN
              /\ i < last.n
              /\ chunks[r].faiss_index_id = Some(last.ntotal0 + i)
              /\ last.ntotal0 + i < Len(index[last.m])
              /\ index[last.m][last.ntotal0 + i + 1] = embed_document(chunks[r].text)

\* a later call on a non-empty index has stored its rows
C1_Witness ==
    /\ last.op = "add_user"
    /\ ~last.raised
    /\ last.ntotal0 >= 1
    /\ last.n >= 1

\* C2: the vector append and the row inserts of one add_document_chunks call
\* are one unit: when the call returns or raises, it has appended as many
\* vectors as it has inserted rows, and every slot it appended has a row.
C2_AppendAndRowsAreOneUnit ==
    last.op = "add_user" =>
        /\ Len(index[last.m]) - last.ntotal0 = Len(chunks) - last.nrows0
        /\ \A pos \in last.ntotal0..(Len(index[last.m]) - 1) :
              \E r \in NewRows : chunks[r].faiss_index_id = Some(pos)

\* C3: a PostgresVectorStore.add_document_chunks call that raises leaves
\* neither its Document row nor any of its Chunk rows in the database.
C3_PostgresAddIsAtomic ==
    (last.op = "add_general" /\ last.raised) =>
        /\ Len(documents) = last.ndocs0
        /\ Len(chunks) = last.nrows0

\* C4: search returns the first k elements of the FAISS results followed by
\* the Postgres results: min(k, |user| + |general|) elements, and no Postgres
\* result stands before a FAISS result.
C4_EphemeralFirstThenTruncate ==
    last.op = "search" =>
        /\ Len(last.result) = Min(last.k, Len(last.user) + Len(last.general))
        /\ \A i \in 1..Len(last.result) :
              last.result[i] = IF i <= Len(last.user) THEN last.user[i]
                               ELSE last.general[i - Len(last.user)]

\* both stores answered, and the truncation cut a Postgres result off
C4_Witness ==
    /\ last.op = "search"
    /\ Len(last.user) >= 1
    /\ Len(last.general) >= 1
    /\ Len(last.user) < last.k
    /\ Len(last.user) + Len(last.general) > last.k

\* row r of chunks is among what a search on manager m ranks: a user row has
\* its vector in m's index at its position id, a general row is in the table
SearchedBy(m, r) ==
    IF chunks[r].faiss_index_id # None
    THEN LET pos == chunks[r].faiss_index_id[1] IN
         /\ pos < Len(index[m])
         /\ index[m][pos + 1] = embed_document(chunks[r].text)
    ELSE r \in 1..Len(chunks)

\* manager m's index holds a user chunk together with its row
UserChunkStored(m) ==
    \E r \in 1..Len(chunks) : chunks[r].faiss_index_id # None /\ SearchedBy(m, r)

\* C5: once add_user_documents has stored a user chunk in the manager's
\* index, a search with k >= 1 that returns has a result of the FAISS store first.
C5_UserChunkFirst ==
    (last.op = "search" /\ ~last.raised /\ UserChunkStored(last.m) /\ last.k >= 1) =>
        /\ Len(last.result) >= 1
        /\ last.result[1].document_id # None

\* C6: every search issued after an add call returned normally searches over
\* the chunks of that call (every row of chunks comes from such a call when
\* the snapshot file can always be written).
C6_VisibleAfterAdd ==
    (last.op = "search" /\ ~last.raised) =>
        \A r \in 1..Len(chunks) : SearchedBy(last.m, r)

Kept == {j \in 1..Len(last.ids) : RowsAt(chunks, last.ids[j]) # {}}

\* C8: similarity_search drops, without raising, every label that has no
\* Chunk row (the -1 padding included); the other results keep their order
\* and carry the text of a row found for their label (no store call failing).
C8_MissingRowsAreDropped ==
    (last.op = "search" /\ last.fault = "none") =>
        /\ ~last.raised
        /\ Len(last.user) = Cardinality(Kept)
        /\ \A j \in Kept :
              LET n == Cardinality({i \in Kept : i <= j}) IN
              \E r \in RowsAt(chunks, last.ids[j]) :
                  last.user[n].text = chunks[r].text

\* a slot without a row was ranked before a slot with a row
C8_Witness ==
    /\ last.op = "search"
    /\ \E i, j \in 1..Len(last.ids) :
          /\ i < j
          /\ last.ids[i] >= 0
          /\ i \notin Kept
          /\ j \in Kept

AnyIndex == {embed_documents(b) : b \in Batches}

\* C9: save_index(path) followed by load_index(path) on any store, whatever
\* its index held, leaves that store with the saved index and nothing else.
C9_SnapshotRoundTrip ==
    /\ (last.op = "save_index" /\ ~last.raised) =>
          \A pre \in AnyIndex :
              load_index(files, pre, UserIndexPath, last.path) =
                  [raised |-> FALSE, index |-> index[last.m], index_path |-> last.path]
    /\ (last.op = "load_index" /\ ~last.raised /\ last.file0.exists) =>
          /\ index[last.m] = read_index(last.file0)
          /\ last.file0 = write_index(index[last.m])

\* a load replaced a non-empty index by another non-empty one
C9_Witness ==
    /\ last.op = "load_index"
    /\ ~last.raised
    /\ last.index0 # <<>>
    /\ index[last.m] # <<>>
    /\ index[last.m] # last.index0

\* C10: loading a missing or corrupt snapshot, in __init__ or in load_index,
\* does not raise and leaves the store with an empty index.
C10_FallBackToEmptyIndex ==
    (last.op \in {"init", "load_index"} /\ ~(last.file0.exists /\ last.file0.valid)) =>
        /\ ~last.raised
        /\ index[last.m] = <<>>

\* C11: PostgresVectorStore.add_document_chunks called with an embedding whose
\* dimension differs from 1024 raises, and afterwards the documents and chunks
\* tables hold exactly the rows they held before the call.
C11_DimensionGuard ==
    (last.op = "pg_add" /\ last.mismatch) =>
        /\ last.raised
        /\ Len(documents) = last.ndocs0
        /\ Len(chunks) = last.nrows0
\* with the query's text t, a passage of text t outranks every passage of
\* another text, as under an embedder stub that maps equal texts to one unit
\* vector and distinct texts to vectors of inner product below 1
ExactMatchRanksFirst ==
    \A t \in Queries : \A u \in Texts \ {t} :
        InnerProduct(embed_query(t), embed_document(t)) >
            InnerProduct(embed_query(t), embed_document(u))

\* C12: after any sequence of add_document_chunks calls, similarity_search(t, k)
\* with k >= 1 and t the exact text of a stored chunk (a row whose vector is
\* in the index at the row's position id) returns that text as its first result.
C12_RoundTrip ==
    (/\ last.op = "search"
     /\ ~last.raised
     /\ last.k >= 1
     /\ ExactMatchRanksFirst
     /\ \E r \in 1..Len(chunks) :
            /\ chunks[r].faiss_index_id # None
            /\ chunks[r].text = last.q
            /\ SearchedBy(last.m, r))
    => /\ Len(last.user) >= 1
       /\ last.user[1].text = last.q
\* the texts of a list of chunk dicts
TextsOf(cs) == [j \in 1..Len(cs) |-> cs[j].text]

\* C13: every chunk returned after the first is the last min(chunk_overlap,
\* length) characters of the preceding chunk as packed (before any overlap
\* prefix was added), a blank line, and its own packed text; the first chunk
\* has no prefix.
C13_OverlapLaw ==
    last.op = "chunk_text" =>
        /\ Len(last.final_chunks) = Len(last.packed)
        /\ \A j \in 1..Len(last.final_chunks) :
              last.final_chunks[j].text =
                  IF j = 1 THEN last.packed[1].text
                  ELSE LET prev == last.packed[j - 1].text
                           n == Min(last.chunk_overlap, Len(prev))
                       IN  SubSeq(prev, Len(prev) - n + 1, Len(prev))
                               \o <<"\n", "\n">> \o last.packed[j].text

\* chunk j of the list returned without the overlap text put before it and
\* the blank line after that
Unprefixed(j) ==
    LET t == last.final_chunks[j].text IN
    IF j = 1 THEN t
    ELSE SubSeq(t, Min(last.chunk_overlap, Len(last.final_chunks[j - 1].text)) + 3, Len(t))

\* C14: a section of more tokens than chunk_size is, whole and alone, the
\* text of one of the chunks, whatever its place among the sections.
C14_OversizedSectionAlone ==
    last.op = "chunk_text" =>
        \A i \in 1..Len(last.sections) :
            count_tokens(last.sections[i]) > last.chunk_size =>
                \E j \in 1..Len(last.final_chunks) :
                    /\ Unprefixed(j) = last.sections[i]
                    /\ last.packed[j].text = last.sections[i]

\* an oversized section stands between two sections that fit the budget
C14_Witness ==
    /\ last.op = "chunk_text"
    /\ \E i \in 2..(Len(last.sections) - 1) :
          /\ count_tokens(last.sections[i]) > last.chunk_size
          /\ count_tokens(last.sections[i - 1]) <= last.chunk_size
          /\ count_tokens(last.sections[i + 1]) <= last.chunk_size

RECURSIVE JoinBlank(_)
\* texts joined by blank lines
JoinBlank(ts) ==
    IF ts = <<>> THEN <<>>
    ELSE IF Len(ts) = 1 THEN ts[1]
    ELSE ts[1] \o <<"\n", "\n">> \o JoinBlank(Tail(ts))

\* C15: the chunks without their overlap prefixes, read in order, are the
\* sections of the split in document order, each once.
C15_Reconstruction ==
    last.op = "chunk_text" =>
        JoinBlank([j \in 1..Len(last.final_chunks) |-> Unprefixed(j)])
            = JoinBlank(split_by_sections(last.text))

\* several chunks, one of them holding more than one section
C15_Witness ==
    /\ last.op = "chunk_text"
    /\ Len(last.final_chunks) >= 2
    /\ Len(last.sections) > Len(last.final_chunks)

\* no match of the section pattern anywhere in the text
NoMarker(text) == \A i \in 1..Len(text) : MatchEnd(text, i) = 0

\* C16: chunk_text returns the empty list for a text that is empty or white
\* space only, and one chunk holding the stripped text for a text that has
\* other characters and no section marker.
C16_EmptyAndMarkerless ==
    last.op = "chunk_text" =>
        /\ Strip(last.text) = <<>> => last.final_chunks = <<>>
        /\ (Strip(last.text) # <<>> /\ NoMarker(last.text)) =>
              TextsOf(last.final_chunks) = <<Strip(last.text)>>

\* a markerless text with white space around it and more tokens than chunk_size
C16_Witness ==
    /\ last.op = "chunk_text"
    /\ NoMarker(last.text)
    /\ Strip(last.text) # <<>>
    /\ Strip(last.text) # last.text
    /\ count_tokens(last.text) > last.chunk_size
\* C17: PostgresVectorStore.similarity_search(q, k) returns min(k, number of
\* stored chunk vectors) rows, each with a vector, in non-decreasing cosine
\* distance to q, and no stored chunk left out is strictly closer to q than
\* one returned.
C17_PgNearestNeighbourOrder ==
    (last.op = "search" /\ ~last.raised) =>
        LET vec == {r \in 1..Len(chunks) : chunks[r].embedding # None}
            d(r) == CosineDistance(chunks[r].embedding[1], embed_query(last.q))
            n == Len(last.pg_rows)
        IN  /\ n = Min(last.k, Cardinality(vec))
            /\ \A j \in 1..n : last.pg_rows[j] \in vec
            /\ \A i, j \in 1..n : i < j => d(last.pg_rows[i]) <= d(last.pg_rows[j])
            /\ \A x \in vec \ Range(last.pg_rows) :
                  \A j \in 1..n : d(last.pg_rows[j]) <= d(x)

\* C18: FAISSVectorStore.similarity_search(query, k) returns at most k
\* results in non-increasing inner product with the query vector, and of two
\* results of equal score the one of the lower position id comes first.
C18_ScoreOrderTiesByInsertion ==
    (last.op = "search" /\ ~last.raised) =>
        LET score(j) == InnerProduct(embed_query(last.q), index[last.m][last.ids[j] + 1])
        IN  /\ Len(last.user) <= last.k
            /\ \A i, j \in Kept :
                  i < j => /\ score(i) >= score(j)
                           /\ score(i) = score(j) => last.ids[i] < last.ids[j]

\* the value under "source" that a result carries, "absent" when it has none
SourceOf(res) ==
    IF res.metadata = None THEN "absent"
    ELSE DictGet(res.metadata[1], "source", "absent")

\* C19: every element search returns carries a source value: the user marker
\* when it comes from the FAISS store, the general marker when it comes from
\* the Postgres store.
C19_SourceMarkers ==
    (last.op = "search" /\ ~last.raised) =>
        \A i \in 1..Len(last.result) :
            SourceOf(last.result[i]) =
                IF i <= Len(last.user) THEN "user" ELSE "general"

\* C20: VectorManager.search does not raise when the FAISS search, the Chunk
\* row lookup or the Postgres query fails.
C20_SearchNeverRaises ==
    last.op = "search" => ~last.raised
\* C21: answer_query appends exactly one QueryLog row, that of its query, in
\* every call that returns a generated answer, and in a call that ends with
\* the no-results message it appends none and does not invoke the generator;
\* search and add operations leave the QueryLog rows as they are.
C21_OneLogPerAnswer ==
    [][/\ (last'.op = "answer_query" /\ ~last'.raised) =>
             IF last'.result = <<>>
             THEN /\ last'.response = NoResultsMessage
                  /\ ~last'.generated
                  /\ query_logs' = query_logs
             ELSE /\ last'.generated
                  /\ last'.response # NoResultsMessage
                  /\ query_logs' = Append(query_logs, QueryLog(last'.q, last'.language))
       /\ last'.op \in {"search", "add_user", "add_general", "init"} =>
             query_logs' = query_logs]_vars

\* two questions answered in different languages, each with its row
C21_Witness ==
    /\ last.op = "answer_query"
    /\ ~last.raised
    /\ last.generated
    /\ Len(query_logs) = 2
    /\ query_logs[1].language # query_logs[2].language
\* C22: whatever add_document_chunks, save_index, load_index and restarts
\* have done, the position ids of the Chunk rows are pairwise distinct and
\* each is below index.ntotal, the slot holding the vector of its row.
C22_PositionIdsUnique ==
    alive[Pipeline] =>
        /\ \A r1, r2 \in 1..Len(chunks) :
              (r1 # r2 /\ chunks[r1].faiss_index_id # None) =>
                  chunks[r1].faiss_index_id # chunks[r2].faiss_index_id
        /\ \A r \in 1..Len(chunks) :
              chunks[r].faiss_index_id # None => SearchedBy(Pipeline, r)
\* C23: between a call's read of index.ntotal and its append no other call
\* reads index.ntotal or appends: at most one call at a time has read the
\* count and not yet appended, and the position ids the calls assign are
\* pairwise distinct.
C23_CountThenAppendIsCritical ==
    /\ \A t, u \in Threads :
          (calls[t].pc = "append" /\ calls[u].pc = "append") => t = u
    /\ \A r1, r2 \in 1..Len(chunks) :
          (chunks[r1].faiss_index_id # None /\
           chunks[r1].faiss_index_id = chunks[r2].faiss_index_id) => r1 = r2
\* C24: at most one VectorManager, hence one FAISSVectorStore bound to the
\* user index path, exists at a time, so the manager that takes the uploads
\* and the manager that answers the questions hold the same index.
C24_SingleOwnership ==
    /\ Cardinality({m \in Managers : alive[m] /\ index_path[m] = UserIndexPath}) <= 1
    /\ (alive["ui"] /\ alive[Pipeline]) => index["ui"] = index[Pipeline]

\* the vector of row r is in the snapshot file at the row's position id
InSnapshot(r) ==
    LET pos == chunks[r].faiss_index_id[1]
        f   == files[UserIndexPath] IN
    /\ f.exists /\ f.valid
    /\ pos < f.ntotal
    /\ read_index(f)[pos + 1] = embed_document(chunks[r].text)

\* C25: with two managers on one snapshot path and one chunks table, after
\* every add_user_documents call that returns, the snapshot file holds the
\* vector of every Chunk row that has a position id, each at its own position.
C25_NoLostUpdate ==
    (last.op = "add_user" /\ ~last.raised) =>
        /\ \A r \in 1..Len(chunks) :
              chunks[r].faiss_index_id # None => InSnapshot(r)
        /\ \A r1, r2 \in 1..Len(chunks) :
              (chunks[r1].faiss_index_id # None /\ r1 # r2) =>
                  chunks[r1].faiss_index_id # chunks[r2].faiss_index_id
\* C26: the rows PostgresVectorStore.similarity_search returns are rows with
\* an embedding and no position id, the rows its own add_document_chunks
\* inserts, so no Chunk row of a search is both a user and a general result.
C26_StoreIndependence ==
    (last.op = "search" /\ ~last.raised) =>
        /\ \A j \in 1..Len(last.pg_rows) :
              /\ chunks[last.pg_rows[j]].embedding # None
              /\ chunks[last.pg_rows[j]].faiss_index_id = None
        /\ Range(last.pg_rows) \cap Range(last.user_rows) = {}
RECURSIVE SectionTokens(_, _)
\* the token counts of sections a..b of the call, summed
SectionTokens(a, b) ==
    IF a > b THEN 0 ELSE count_tokens(last.sections[a]) + SectionTokens(a + 1, b)

\* the first section of the chunk that section i is in, when starts[k] says
\* whether section k begins a chunk
ChunkStart(starts, i) ==
    CHOOSE a \in 1..i : starts[a] /\ \A b \in (a + 1)..i : ~starts[b]

\* the greedy rule: section 1 begins a chunk; a later section joins the chunk
\* of its predecessor exactly when the sections of that chunk and the section
\* itself have at most chunk_size tokens together, and begins a chunk otherwise
GreedyStarts ==
    CHOOSE starts \in [1..Len(last.sections) -> BOOLEAN] :
        \A i \in 1..Len(last.sections) :
            starts[i] <=>
                \/ i = 1
                \/ SectionTokens(ChunkStart(starts, i - 1), i) > last.chunk_size

\* the sections of the j-th chunk under the greedy rule
GreedyGroup(j) ==
    LET first == {i \in 1..Len(last.sections) : GreedyStarts[i]}
        a == CHOOSE i \in first : Cardinality({k \in first : k <= i}) = j
        later == {k \in first : k > a}
        b == IF later = {} THEN Len(last.sections)
             ELSE (CHOOSE k \in later : \A x \in later : k <= x) - 1
    IN  [lo |-> a, hi |-> b]

\* C27: the packed chunks are the groups of the greedy rule in document
\* order, each the sections of its group joined by blank lines; a chunk of two
\* or more sections has at most chunk_size section tokens; when every two
\* adjacent sections together exceed chunk_size there is one chunk a section.
C27_GreedyPacking ==
    last.op = "chunk_text" =>
        LET n == Len(last.sections)
            groups == Cardinality({i \in 1..n : GreedyStarts[i]})
        IN  /\ Len(last.packed) = groups
            /\ \A j \in 1..groups :
                  LET g == GreedyGroup(j) IN
                  /\ last.packed[j].text =
                        JoinBlank([k \in 1..(g.hi - g.lo + 1) |-> last.sections[g.lo + k - 1]])
                  /\ g.hi > g.lo => SectionTokens(g.lo, g.hi) <= last.chunk_size
            /\ (\A i \in 1..(n - 1) : SectionTokens(i, i + 1) > last.chunk_size)
                  => Len(last.packed) = n

\* two sections that fill the budget exactly share a chunk and the third
\* section, which no longer fits, begins the next chunk
C27_Witness ==
    /\ last.op = "chunk_text"
    /\ Len(last.sections) = 3
    /\ SectionTokens(1, 2) = last.chunk_size
    /\ Len(last.packed) = 2
    /\ last.packed[1].text = JoinBlank(SubSeq(last.sections, 1, 2))
    /\ last.packed[2].text = last.sections[3]
\* the characters \\b takes for word characters
WordChars == {"S", "s", "a", "1"}

\* the positions of text s where the split described starts a section: a
\* keyword in any letter case, at a word boundary, then white space, then digits
MarkerStarts(s) ==
    {i \in 1..Len(s) :
        /\ s[i] \in {"S", "s"}
        /\ i = 1 \/ s[i - 1] \notin WordChars
        /\ LET w == RunEnd(s, i + 1, Whitespace)
               d == RunEnd(s, w + 1, Digits)
           IN  w >= i + 1 /\ d >= w + 1}

\* the pieces of s cut at the positions of set cuts, in order, blank ones left out
RECURSIVE CutAt(_, _, _)
CutAt(s, cuts, start) ==
    LET later == {i \in cuts : i > start}
        next == IF later = {} THEN Len(s) + 1
                ELSE CHOOSE i \in later : \A j \in later : i <= j
        piece == SubSeq(s, start, next - 1)
        rest == IF later = {} THEN <<>> ELSE CutAt(s, cuts, next)
    IN  IF Strip(piece) # <<>> THEN <<piece>> \o rest ELSE rest

\* a text without its white space
Solid(s) == SelectSeq(s, LAMBDA c : c \notin Whitespace)

\* C28: the sections of a text are its pieces between the markers (keyword in
\* any letter case at a word boundary, white space, digits), in order: each
\* section has the characters of its piece, a section of a marker begins with
\* the marker, and non-blank text before the first marker is a section.
C28_SectionSplit ==
    last.op = "chunk_text" =>
        LET want == CutAt(last.text, MarkerStarts(last.text), 1) IN
        /\ Len(last.sections) = Len(want)
        /\ \A j \in 1..Len(want) :
              /\ Solid(last.sections[j]) = Solid(want[j])
              /\ want[j][1] \in {"S", "s"} => last.sections[j][1] = want[j][1]
\* C29: a search that returns has called embed_query once, and that one
\* vector of the query is what both stores were searched with.
C29_EmbedOnce ==
    (last.op = "search" /\ ~last.raised) =>
        /\ Len(last.embedded) = 1
        /\ \A j \in 1..Len(last.embedded) : last.embedded[j] = embed_query(last.q)
\* C30: add_user_documents and add_general_documents called with no chunks
\* return without raising and leave every index, the snapshot files and the
\* documents and chunks tables as they were.
C30_EmptyBatchIsNoOp ==
    [][(last'.op \in {"add_user", "add_general"} /\ last'.n = 0) =>
          /\ ~last'.raised
          /\ index' = index
          /\ files' = files
          /\ documents' = documents
          /\ chunks' = chunks]_vars
====
